---- MODULE Spec2Model ----
(***************************************************************************)
(* rehype-styling: a hast tree transform.  Every text node whose value     *)
(* starts with an annotation {...} has the annotation parsed (classes, id, *)
(* key=value attributes, CSS declarations), stripped from the text, and    *)
(* merged into the properties of a nearby element.                         *)
(*                                                                         *)
(* A string is a sequence of one-character strings.  A property value is a *)
(* record [isArray, items]: a string s is [FALSE, <<s>>], a string array   *)
(* (hast's className) is [TRUE, <<s1, ..., sn>>].                          *)
(***************************************************************************)
EXTENDS Integers, Sequences, FiniteSets, TLC

\* Children of the parent under study.
MaxChildren == 4
\* Words of a generated annotation body.
MaxTokens == 2

----------------------------------------------------------------------------
\* Strings

\* JavaScript's \s and trim(): the white space of the modelled alphabet.
WS == {" ", "\t", "\n"}
Quotes == {"\"", "'"}

Last(s) == s[Len(s)]
Front(s) == SubSeq(s, 1, Len(s) - 1)

\* First position of character c in s, 0 when absent.
IndexOf(s, c) ==
  IF \E i \in DOMAIN s : s[i] = c
  THEN CHOOSE i \in DOMAIN s : s[i] = c /\ \A j \in 1..(i - 1) : s[j] # c
  ELSE 0

Includes(s, c) == \E i \in DOMAIN s : s[i] = c
StartsWith(s, c) == s # <<>> /\ s[1] = c
EndsWith(s, c) == s # <<>> /\ Last(s) = c

RECURSIVE TrimStart(_)
TrimStart(s) ==
  IF s # <<>> /\ s[1] \in WS THEN TrimStart(Tail(s)) ELSE s

RECURSIVE TrimEnd(_)
TrimEnd(s) ==
  IF s # <<>> /\ Last(s) \in WS THEN TrimEnd(Front(s)) ELSE s

\* String.prototype.trim
Trim(s) == TrimEnd(TrimStart(s))

\* Array.prototype.join
RECURSIVE Join(_, _)
Join(parts, sep) ==
  IF parts = <<>> THEN <<>>
  ELSE IF Len(parts) = 1 THEN parts[1]
  ELSE parts[1] \o sep \o Join(Tail(parts), sep)

\* String.prototype.split on a one-character separator.
RECURSIVE Split(_, _)
Split(s, c) ==
  LET k == IndexOf(s, c)
  IN IF k = 0 THEN <<s>>
     ELSE <<SubSeq(s, 1, k - 1)>> \o Split(SubSeq(s, k + 1, Len(s)), c)

\* filter(Boolean) on a string array: the empty strings go.
RECURSIVE FilterNonEmpty(_)
FilterNonEmpty(parts) ==
  IF parts = <<>> THEN <<>>
  ELSE IF parts[1] = <<>> THEN FilterNonEmpty(Tail(parts))
  ELSE <<parts[1]>> \o FilterNonEmpty(Tail(parts))

\* Duplicates go, the last occurrence keeps its place.
RECURSIVE Dedup_KeepLast(_)
Dedup_KeepLast(xs) ==
  IF xs = <<>> THEN <<>>
  ELSE LET rest == Dedup_KeepLast(Tail(xs))
       IN IF \E i \in DOMAIN rest : rest[i] = Head(xs)
          THEN rest
          ELSE <<Head(xs)>> \o rest

\* [...new Set(xs)]: duplicates go, the first occurrence keeps its place.
RECURSIVE Dedup(_)
Dedup(xs) ==
  IF xs = <<>> THEN <<>>
  ELSE LET front == Dedup(Front(xs))
       IN IF \E i \in DOMAIN front : front[i] = Last(xs)
          THEN front
          ELSE Append(front, Last(xs))

----------------------------------------------------------------------------
\* The annotation: attributeRegex = /^{([^}]*)}/

\* A greedy match: the last '}' of the value.
CloseIdx_Last(v) ==
  IF \A i \in DOMAIN v : v[i] # "}" THEN 0
  ELSE CHOOSE i \in DOMAIN v : v[i] = "}" /\ \A j \in (i + 1)..Len(v) : v[j] # "}"

CloseIdx(v) == IndexOf(v, "}")

\* A match that is not anchored at offset 0.
Matches_Unanchored(v) == Includes(v, "{") /\ CloseIdx(v) > 0

\* node.value.match(attributeRegex) is not null
Matches(v) == StartsWith(v, "{") /\ CloseIdx(v) > 0

\* match[1]
MatchBody(v) == SubSeq(v, 2, CloseIdx(v) - 1)

\* The replacement with the leading white space trimmed only.
StripAnnotation_TrimStartOnly(v) == TrimStart(SubSeq(v, CloseIdx(v) + 1, Len(v)))

\* node.value.replace(attributeRegex, '').trim()
StripAnnotation(v) == Trim(SubSeq(v, CloseIdx(v) + 1, Len(v)))

----------------------------------------------------------------------------
\* parseAttributes

\* A token regex without the quoted runs: [^\s]+.
RECURSIVE TokenLen_NoQuotes(_)
TokenLen_NoQuotes(s) ==
  IF s = <<>> \/ s[1] \in WS THEN 0 ELSE 1 + TokenLen_NoQuotes(Tail(s))

\* Length of the match of (?:[^\s"']+|"[^"]*"|'[^']*')+ at the start of s,
\* 0 when it does not match there.
RECURSIVE TokenLen(_)
TokenLen(s) ==
  IF s = <<>> \/ s[1] \in WS THEN 0
  ELSE IF s[1] \in Quotes
       THEN LET k == IndexOf(Tail(s), s[1])
            IN IF k = 0 THEN 0
               ELSE (k + 1) + TokenLen(SubSeq(s, k + 2, Len(s)))
       ELSE 1 + TokenLen(Tail(s))

\* attributeString.match(/(?:[^\s"']+|"[^"]*"|'[^']*')+/g) ?? []
RECURSIVE Tokenize(_)
Tokenize(s) ==
  IF s = <<>> THEN <<>>
  ELSE LET n == TokenLen(s)
       IN IF n = 0 THEN Tokenize(Tail(s))
          ELSE <<SubSeq(s, 1, n)>> \o Tokenize(SubSeq(s, n + 1, Len(s)))

IsClassToken(t) == StartsWith(t, ".")
IsIdToken(t) == StartsWith(t, "#")
\* The attribute rule without its test for ':'.
IsAttributeToken_AnyEquals(t) == Includes(t, "=")

IsAttributeToken(t) == Includes(t, "=") /\ ~Includes(t, ":")
IsCssToken(t) == Includes(t, ":")

\* The tokens that end the absorption of a CSS declaration.
StopsDeclaration(t) ==
  IsClassToken(t) \/ IsIdToken(t) \/ IsAttributeToken(t) \/ IsCssToken(t)

\* replace(/^["']|["']$/g, '')
StripQuotes(v) ==
  LET v1 == IF v # <<>> /\ v[1] \in Quotes THEN Tail(v) ELSE v
  IN IF v1 # <<>> /\ Last(v1) \in Quotes THEN Front(v1) ELSE v1

\* const [key, ...valueParts] = token.split('=')
AttributeKey(t) == Split(t, "=")[1]
AttributeValue(t) == StripQuotes(Join(Tail(Split(t, "=")), <<"=">>))

\* An absorption that only a token with ':' stops.
RECURSIVE AbsorbEnd_UntilColon(_, _)
AbsorbEnd_UntilColon(tokens, j) ==
  IF j > Len(tokens) \/ IsCssToken(tokens[j]) THEN j
  ELSE AbsorbEnd_UntilColon(tokens, j + 1)

\* The index j at which the while loop of the CSS case stops (1-based).
RECURSIVE AbsorbEnd(_, _)
AbsorbEnd(tokens, j) ==
  IF j > Len(tokens) \/ StopsDeclaration(tokens[j]) THEN j
  ELSE AbsorbEnd(tokens, j + 1)

\* cssDeclaration for the CSS token at i, absorbing up to j - 1.
CssDeclaration(tokens, i, j) ==
  LET d == Trim(Join(SubSeq(tokens, i, j - 1), <<" ">>))
  IN IF EndsWith(d, ";") THEN d ELSE Append(d, ";")

SetKey(f, k, v) == (k :> v) @@ f

EmptyMap == [k \in {} |-> <<>>]

STYLE == <<"s", "t", "y", "l", "e">>
CLASSNAME == <<"c", "l", "a", "s", "s", "N", "a", "m", "e">>
ID == <<"i", "d">>

\* id: <<>> is null, <<s>> is the string s.
EmptyResult ==
  [classes |-> <<>>, id |-> <<>>, attributes |-> EmptyMap, cssProperties |-> <<>>]

\* A loop that gives up the whole annotation at a token of no case.
RECURSIVE ClassifyFrom_RejectUnknown(_, _, _)
ClassifyFrom_RejectUnknown(tokens, i, r) ==
  IF i > Len(tokens) THEN r
  ELSE LET t == tokens[i]
       IN IF IsClassToken(t)
          THEN ClassifyFrom_RejectUnknown(tokens, i + 1,
                 [r EXCEPT !.classes = Append(@, Tail(t))])
          ELSE IF IsIdToken(t)
          THEN ClassifyFrom_RejectUnknown(tokens, i + 1,
                 [r EXCEPT !.id = <<Tail(t)>>])
          ELSE IF IsAttributeToken(t)
          THEN ClassifyFrom_RejectUnknown(tokens, i + 1,
                 [r EXCEPT !.attributes =
                    SetKey(@, AttributeKey(t), AttributeValue(t))])
          ELSE IF IsCssToken(t)
          THEN LET j == AbsorbEnd(tokens, i + 1)
               IN ClassifyFrom_RejectUnknown(tokens, j,
                    [r EXCEPT !.cssProperties =
                       Append(@, CssDeclaration(tokens, i, j))])
          ELSE EmptyResult

\* The for loop over the tokens, from index i (1-based).
RECURSIVE ClassifyFrom(_, _, _)
ClassifyFrom(tokens, i, r) ==
  IF i > Len(tokens) THEN r
  ELSE LET t == tokens[i]
       IN IF IsClassToken(t)
          THEN ClassifyFrom(tokens, i + 1,
                 [r EXCEPT !.classes = Append(@, Tail(t))])
          ELSE IF IsIdToken(t)
          THEN ClassifyFrom(tokens, i + 1, [r EXCEPT !.id = <<Tail(t)>>])
          ELSE IF IsAttributeToken(t)
          THEN ClassifyFrom(tokens, i + 1,
                 [r EXCEPT !.attributes =
                    SetKey(@, AttributeKey(t), AttributeValue(t))])
          ELSE IF IsCssToken(t)
          THEN LET j == AbsorbEnd(tokens, i + 1)
               IN ClassifyFrom(tokens, j,
                    [r EXCEPT !.cssProperties =
                       Append(@, CssDeclaration(tokens, i, j))])
          ELSE ClassifyFrom(tokens, i + 1, r)

\* The style assignment made only when no style= token was seen.
parseAttributes_KeepStyleAttribute(attributeString) ==
  LET r == ClassifyFrom(Tokenize(attributeString), 1, EmptyResult)
  IN [classes |-> r.classes,
      id |-> r.id,
      attributes |->
        IF Len(r.cssProperties) > 0 /\ STYLE \notin DOMAIN r.attributes
        THEN SetKey(r.attributes, STYLE, Trim(Join(r.cssProperties, <<" ">>)))
        ELSE r.attributes]

\* parseAttributes(attributeString)
parseAttributes(attributeString) ==
  LET r == ClassifyFrom(Tokenize(attributeString), 1, EmptyResult)
  IN [classes |-> r.classes,
      id |-> r.id,
      attributes |->
        IF Len(r.cssProperties) > 0
        THEN SetKey(r.attributes, STYLE, Trim(Join(r.cssProperties, <<" ">>)))
        ELSE r.attributes]

----------------------------------------------------------------------------
\* applyAttributes

Str(s) == [isArray |-> FALSE, items |-> <<s>>]
Arr(a) == [isArray |-> TRUE, items |-> a]
StrOf(v) == v.items[1]

\* existingClassArray
ExistingClassArray(props) ==
  IF CLASSNAME \notin DOMAIN props THEN <<>>
  ELSE IF props[CLASSNAME].isArray THEN props[CLASSNAME].items
  ELSE FilterNonEmpty(Split(StrOf(props[CLASSNAME]), " "))

ApplyClasses(props, classes) ==
  IF Len(classes) > 0
  THEN SetKey(props, CLASSNAME,
         Str(Join(Dedup(ExistingClassArray(props) \o classes), <<" ">>)))
  ELSE props

\* An id that is set only on an element without one.
ApplyId_KeepExisting(props, id) ==
  IF id # <<>> /\ id[1] # <<>> /\ ID \notin DOMAIN props
  THEN SetKey(props, ID, Str(id[1]))
  ELSE props

\* if (attributes.id): null and '' are falsy
ApplyId(props, id) ==
  IF id # <<>> /\ id[1] # <<>> THEN SetKey(props, ID, Str(id[1])) ELSE props

\* (element.properties.style as string) || ''
ExistingStyle(props) ==
  IF STYLE \in DOMAIN props THEN StrOf(props[STYLE]) ELSE <<>>

\* A separator that never adds the ';'.
StyleSeparator_SpaceOnly(existingStyle) ==
  IF existingStyle # <<>> THEN <<" ">> ELSE <<>>

\* existingStyle && !existingStyle.endsWith(';') ? '; ' : existingStyle ? ' ' : ''
StyleSeparator(existingStyle) ==
  IF existingStyle # <<>> /\ ~EndsWith(existingStyle, ";") THEN <<";", " ">>
  ELSE IF existingStyle # <<>> THEN <<" ">>
  ELSE <<>>

MergeStyle(props, value) ==
  LET e == ExistingStyle(props)
  IN SetKey(props, STYLE, Str(e \o StyleSeparator(e) \o value))

\* One round of the loop over Object.entries(attributes.attributes).
ApplyEntry(props, key, value) ==
  IF key = STYLE THEN MergeStyle(props, value)
  ELSE SetKey(props, key, Str(value))

\* The loop; the keys are distinct, so the rounds commute.
RECURSIVE ApplyEntries(_, _, _)
ApplyEntries(props, attrs, keys) ==
  IF keys = {} THEN props
  ELSE LET k == CHOOSE x \in keys : TRUE
       IN ApplyEntries(ApplyEntry(props, k, attrs[k]), attrs, keys \ {k})

\* The attribute loop before the classes and the id.
applyAttributes_AttributesFirst(props, parsed) ==
  ApplyId(ApplyClasses(ApplyEntries(props, parsed.attributes,
                                    DOMAIN parsed.attributes),
                       parsed.classes),
          parsed.id)

\* element.properties = {} in place of ??=.
applyAttributes_ResetProperties(props, parsed) ==
  ApplyEntries(ApplyId(ApplyClasses(EmptyMap, parsed.classes), parsed.id),
               parsed.attributes, DOMAIN parsed.attributes)

\* applyAttributes(element, attributes): the element's new properties.
applyAttributes(props, parsed) ==
  ApplyEntries(ApplyId(ApplyClasses(props, parsed.classes), parsed.id),
               parsed.attributes, DOMAIN parsed.attributes)

----------------------------------------------------------------------------
\* The tree

\* Node ids: the root, an element G under it, the element P under G, the
\* children of the parent under study and one text inside each "wrap" child.
Root == 0
G == Root + 1
P == Root + 2
Child(i) == P + i
Inner(i) == P + MaxChildren + i
Nodes == Root..(P + 2 * MaxChildren)
NoTarget == -1

VARIABLES
  type,        \* node -> "root" | "element" | "text" | "none" (unused id)
  children,    \* node -> its child list (node ids)
  value,       \* text node -> its value
  properties,  \* element -> its properties (key -> property value)
  stack,       \* the traversal: frames [node, offset], innermost last
  visited,     \* the text nodes onVisit was called for, in call order
  input,       \* the tree as it was given to the transformer
  before,      \* the tree before the last step
  last         \* the last step: what ran, on which node, with which target

vars == <<type, children, value, properties, stack, visited, input, before, last>>

Tree == [children |-> children, value |-> value, properties |-> properties]

\* Texts of the tree specification.
TPlain == <<"h", "i">>
TPruned == <<"{", "a", ":", " ", "b", ";", "}">>
TKept == <<"{", "c", ":", " ", "d", ";", "}", " ", "x">>
TClass == <<"{", ".", "k", "}", "y">>
TEmpty == <<"{", "}", "w">>
TInner == <<"{", "e", ":", " ", "f", ";", "}", "z">>

OuterTexts == {TPlain, TPruned, TKept, TClass, TEmpty}
InnerTexts == {TInner}

\* A child of the parent under study: a text, an element without children,
\* or an element around one text.
ChildChoices(outer, inner) ==
  {[kind |-> "text", text |-> t] : t \in outer}
    \cup {[kind |-> "leaf", text |-> <<>>]}
    \cup {[kind |-> "wrap", text |-> t] : t \in inner}

PropsNone == EmptyMap
PropsSome ==
  (STYLE :> Str(<<"p", ":", "q">>)) @@ (ID :> Str(<<"o">>))
    @@ (CLASSNAME :> Arr(<< <<"k">>, <<"n">> >>))

\* The tree whose parent under study is the root (pk = "root") or P, with
\* the children kids and each element x carrying the properties base[x].
InitTree(pk, kids, base) ==
  LET n == Len(kids)
      ids == [i \in 1..n |-> Child(i)]
      used == {Root} \cup {Child(i) : i \in 1..n}
                \cup {Inner(i) : i \in {j \in 1..n : kids[j].kind = "wrap"}}
                \cup (IF pk = "element" THEN {G, P} ELSE {})
      isInner(x) == \E i \in 1..n : x = Inner(i) /\ kids[i].kind = "wrap"
      isChild(x) == \E i \in 1..n : x = Child(i)
      at(x) == kids[CHOOSE i \in 1..n : x \in {Child(i), Inner(i)}]
      ty == [x \in Nodes |->
               IF x \notin used THEN "none"
               ELSE IF x = Root THEN "root"
               ELSE IF x \in {G, P} THEN "element"
               ELSE IF isInner(x) THEN "text"
               ELSE IF at(x).kind = "text" THEN "text" ELSE "element"]
      ch == [x \in Nodes |->
               IF x \notin used THEN <<>>
               ELSE IF pk = "element" /\ x = Root THEN <<G>>
               ELSE IF pk = "element" /\ x = G THEN <<P>>
               ELSE IF x = (IF pk = "element" THEN P ELSE Root) THEN ids
               ELSE IF isChild(x) /\ at(x).kind = "wrap"
                    THEN <<x + MaxChildren>>
               ELSE <<>>]
      va == [x \in Nodes |->
               IF x \in used /\ ty[x] = "text" THEN at(x).text ELSE <<>>]
      pr == [x \in Nodes |-> IF ty[x] = "element" THEN base[x] ELSE EmptyMap]
  IN /\ type = ty
     /\ children = ch
     /\ value = va
     /\ properties = pr
     /\ stack = <<[node |-> Root, offset |-> 0]>>
     /\ visited = <<>>
     /\ input = [children |-> ch, value |-> va, properties |-> pr]
     /\ before = [children |-> ch, value |-> va, properties |-> pr]
     /\ last = [kind |-> "start", node |-> Root, index |-> 0,
                parent |-> Root, target |-> NoTarget]

\* Trees: every child list up to MaxChildren; the elements with an odd id
\* come with properties, the others without.
MixedProps == [x \in Nodes |-> IF x % 2 = 1 THEN PropsSome ELSE PropsNone]

Init ==
  \E pk \in {"root", "element"}, n \in 0..MaxChildren :
    \E kids \in [1..n -> ChildChoices(OuterTexts, InnerTexts)] :
      InitTree(pk, kids, MixedProps)

\* Texts: generated annotation bodies in front of a few suffixes, and values
\* that do not match.
WProp == <<"a", ":">>
WValue == <<"b", ";">>
WHex == <<"#", "1", ";">>
WDot == <<".", "5", ";">>
WColon == <<"u", ":", "v", ";">>
WClass == <<".", "k">>
WId == <<"#", "m">>
WAttr == <<"x", "=", "1">>
WOther == <<"z">>
Words == {WProp, WValue, WHex, WDot, WColon, WClass, WId, WAttr, WOther}

Bodies ==
  UNION {{Join(ws, <<" ">>) : ws \in [1..n -> Words]} : n \in 0..MaxTokens}
Pads == {<<>>, <<" ">>}
Suffixes == {<<>>, <<" ">>, <<"x">>, <<" ", "x", " ", "y", " ">>}

TMiddle == <<"h", " ", "{", "a", ":", "b", ";", "}", " ", "x">>
TUnterminated == <<"{", "a", ":", " ", "b", ";">>
TNoOpen == <<"a", ":", "b", ";", "}">>
NonMatching == {TPlain, TMiddle, TUnterminated, TNoOpen, <<>>}

\* A '}' inside a quoted value, and a '{' inside the braces.
TQuotedClose == <<"{", "x", "=", "\"", "a", "}", "b", "\"", "}", "y">>
TNested == <<"{", ".", "k", "{", ".", "n", "}", "w", "}", "z">>
EarlyClose == {TQuotedClose, TNested}

GenTexts ==
  {<<"{">> \o pad \o b \o pad \o <<"}">> \o suf :
     pad \in Pads, b \in Bodies, suf \in Suffixes}
    \cup NonMatching \cup EarlyClose

TextShapes(t) ==
  LET T == [kind |-> "text", text |-> t]
      E == [kind |-> "leaf", text |-> <<>>]
  IN {<<T>>, <<E, T>>, <<T, E>>}

InitText ==
  \E t \in GenTexts, base \in {PropsNone, PropsSome} :
    \E kids \in TextShapes(t) :
      InitTree("element", kids, [x \in Nodes |-> base])

\* Annotations for the merge: one word of every token class, words that
\* satisfy more than one rule, the examples of the documentation, and
\* elements that already carry a style, an id, classes and other keys.
MClass == <<".", "k">>
MNewClass == <<".", "w">>
MId == <<"#", "m">>
MBareId == <<"#">>
MDecl == <<"c", ":", "d">>
MAttr == <<"x", "=", "1">>
MQuoted == <<"x", "=", "\"", "2", "\"">>
MQuotedTail == <<"x", "=", "\"", "a", "\"", "b">>
MEquals == <<"y", "=", "1", "=", "2">>
MIdAttr == <<"i", "d", "=", "b">>
MStyleAttr == <<"s", "t", "y", "l", "e", "=", "r">>
MClassEq == <<".", "a", "=", "b">>
MIdColon == <<"#", "a", ":", "b">>
MEqColon == <<"e", "=", "f", ":", "g">>
MOther == <<"z">>
MergeWords ==
  {MClass, MNewClass, MId, MBareId, MDecl, MAttr, MQuoted, MQuotedTail,
   MEquals, MIdAttr, MStyleAttr, MClassEq, MIdColon, MEqColon, MOther}

\* '.card .featured #main-article color: blue; padding: 20px; data-category="tech"'
BMixed ==
  <<".", "c", "a", "r", "d", " ", ".", "f", "e", "a", "t", "u", "r", "e", "d", " ",
     "#", "m", "a", "i", "n", "-", "a", "r", "t", "i", "c", "l", "e", " ", "c", "o", "l", "o", "r", ":", " ", "b", "l", "u", "e", ";", " ",
     "p", "a", "d", "d", "i", "n", "g", ":", " ", "2", "0", "p", "x", ";", " ",
     "d", "a", "t", "a", "-", "c", "a", "t", "e", "g",
     "o", "r", "y", "=", "\"", "t", "e", "c", "h", "\"">>
\* '.new .x' on class="existing"
BNewClasses == <<".", "n", "e", "w", " ", ".", "x">>
ExampleBodies == {BMixed, BNewClasses}

MergeBodies ==
  UNION {{Join(ws, <<" ">>) : ws \in [1..n -> MergeWords]} : n \in 0..MaxTokens}
    \cup ExampleBodies

MergeTexts == {<<"{">> \o b \o <<"}", "x">> : b \in MergeBodies} \cup {TPlain}

KEYX == <<"x">>
TITLE == <<"t", "i", "t", "l", "e">>
PropsSemi ==
  (STYLE :> Str(<<"p", ":", "q", ";">>)) @@ (KEYX :> Str(<<"0">>))
    @@ (TITLE :> Str(<<"v">>)) @@ (CLASSNAME :> Str(<<"k", " ", " ", "n">>))
PropsBlank ==
  (STYLE :> Str(<<>>)) @@ (CLASSNAME :> Str(<<"e", "x", "i", "s", "t", "i", "n", "g">>))
MergeBases == {PropsNone, PropsSome, PropsSemi, PropsBlank}

MergeShapes(t) ==
  LET T == [kind |-> "text", text |-> t]
      E == [kind |-> "leaf", text |-> <<>>]
  IN {<<T>>, <<E, T>>}

InitMerge ==
  \E t \in MergeTexts, base \in MergeBases :
    \E kids \in MergeShapes(t) :
      InitTree("element", kids, [x \in Nodes |-> base])

\* Two texts in one parent: annotations that name classes, an id, a style
\* and a key, kept (text follows) or pruned, empty braces and a plain text.
BFirst == <<".", "k", " ", "#", "m", " ", "c", ":", "d", " ", "x", "=", "1">>
BSecond == <<".", "n", " ", ".", "k", " ", "#", "o", " ", "e", ":", " ", "f", ";", " ", "x", "=", "2">>
BStyleOnly == <<"c", ":", "d">>
BClassOnly == <<".", "w">>
PairBodies == {BFirst, BSecond, BStyleOnly, BClassOnly}
\* '{.w}{.k}x': a second annotation behind the first.
TDouble == <<"{", ".", "w", "}", "{", ".", "k", "}", "x">>
PairTexts ==
  {<<"{">> \o b \o <<"}">> \o suf : b \in PairBodies, suf \in {<<>>, <<"x">>}}
    \cup {TEmpty, TPlain, TDouble}

InitPair ==
  \E t1 \in PairTexts, t2 \in PairTexts, base \in {PropsNone, PropsSome} :
    InitTree("element",
             <<[kind |-> "text", text |-> t1], [kind |-> "text", text |-> t2]>>,
             [x \in Nodes |-> base])

\* Annotations with quotes, a bare '.', and key=value tokens that name the
\* id and the class; targets whose class string has a tab in it.
EQuoted == <<"t", "=", "\"", "p", " ", "q", "\"">>
ESingle == <<"u", "=", "'", "p", " ", "\"", "q", "'">>
EAdjacent == <<"v", "=", "a", "\"", "b", " ", "c", "\"", "d">>
ELone == <<"w", "=", "a", "\"", "b">>
EBareClass == <<".">>
EClass == <<".", "k">>
EClassAttr == <<"c", "l", "a", "s", "s", "N", "a", "m", "e", "=", "z">>
EIdAttr == <<"i", "d", "=", "b">>
EId == <<"#", "a">>
EdgeWords ==
  {EQuoted, ESingle, EAdjacent, ELone, EBareClass, EClass, EClassAttr, EIdAttr,
   EId}

\* 'aria-label="Featured article"'
BAriaLabel ==
  <<"a", "r", "i", "a", "-", "l", "a", "b", "e", "l", "=", "\"", "F", "e", "a", "t", "u", "r", "e", "d", " ", "a", "r", "t", "i", "c", "l", "e", "\"">>

EdgeBodies ==
  UNION {{Join(ws, <<" ">>) : ws \in [1..n -> EdgeWords]} : n \in 0..MaxTokens}
    \cup {BAriaLabel}
EdgeTexts == {<<"{">> \o b \o <<"}", "x">> : b \in EdgeBodies} \cup {TPlain}

PropsTabbed == (CLASSNAME :> Str(<<"k", "\t", "n">>))
EdgeBases == {PropsNone, PropsSome, PropsTabbed}

InitEdge ==
  \E t \in EdgeTexts, base \in EdgeBases :
    InitTree("element", <<[kind |-> "text", text |-> t]>>, [x \in Nodes |-> base])

----------------------------------------------------------------------------
\* onVisit and getTargetElement

\* splice at the position before the node's.
Splice_Previous(ch, node) ==
  LET k == IndexOf(ch, node) - 1
      at == IF k <= 0 THEN Len(ch) ELSE k
  IN SubSeq(ch, 1, at - 1) \o SubSeq(ch, at + 1, Len(ch))

\* parent.children.splice(parent.children.indexOf(node), 1); indexOf gives
\* -1 for a node that is not a child, and splice(-1, 1) removes the last.
Splice(ch, node) ==
  LET k == IndexOf(ch, node)
      at == IF k = 0 THEN Len(ch) ELSE k
  IN SubSeq(ch, 1, at - 1) \o SubSeq(ch, at + 1, Len(ch))

\* getTargetElement without the post-element rule.
getTargetElement_NoPostElement(ch, parent, index) ==
  IF Len(ch) = 1 /\ type[ch[1]] = "element"
  THEN ch[1]
  ELSE IF type[parent] = "element"
  THEN parent
  ELSE NoTarget

\* getTargetElement taking the first element among the children.
getTargetElement_FirstElementSibling(ch, parent, index) ==
  IF index # 0 /\ Len(ch) > 0 /\ index <= Len(ch) /\ type[ch[index]] = "element"
  THEN ch[index]
  ELSE IF \E i \in DOMAIN ch : type[ch[i]] = "element"
  THEN ch[CHOOSE i \in DOMAIN ch :
            type[ch[i]] = "element" /\ \A j \in 1..(i - 1) : type[ch[j]] # "element"]
  ELSE IF type[parent] = "element"
  THEN parent
  ELSE NoTarget

\* getTargetElement without the sole-remaining-element rule.
getTargetElement_NoSoleChild(ch, parent, index) ==
  IF index # 0 /\ Len(ch) > 0 /\ index <= Len(ch) /\ type[ch[index]] = "element"
  THEN ch[index]
  ELSE IF type[parent] = "element"
  THEN parent
  ELSE NoTarget

\* getTargetElement as it was before the length test: a first child that is
\* an element is taken whatever follows it.
getTargetElement_AnyFirstChild(ch, parent, index) ==
  IF index # 0 /\ Len(ch) > 0 /\ index <= Len(ch) /\ type[ch[index]] = "element"
  THEN ch[index]
  ELSE IF Len(ch) > 0 /\ type[ch[1]] = "element"
  THEN ch[1]
  ELSE IF type[parent] = "element"
  THEN parent
  ELSE NoTarget

\* getTargetElement reading children[index] for the previous sibling.
getTargetElement_PrevOffByOne(ch, parent, index) ==
  IF index # 0 /\ index + 1 <= Len(ch) /\ type[ch[index + 1]] = "element"
  THEN ch[index + 1]
  ELSE IF Len(ch) = 1 /\ type[ch[1]] = "element"
  THEN ch[1]
  ELSE IF type[parent] = "element"
  THEN parent
  ELSE NoTarget

\* getTargetElement without the test of the parent's type.
getTargetElement_AnyParent(ch, parent, index) ==
  IF index # 0 /\ Len(ch) > 0 /\ index <= Len(ch) /\ type[ch[index]] = "element"
  THEN ch[index]
  ELSE IF Len(ch) = 1 /\ type[ch[1]] = "element"
  THEN ch[1]
  ELSE parent

\* getTargetElement(parent, index), ch being parent.children; index is
\* 0-based as in the code, ch is 1-based.
getTargetElement(ch, parent, index) ==
  IF index # 0 /\ Len(ch) > 0 /\ index <= Len(ch) /\ type[ch[index]] = "element"
  THEN ch[index]
  ELSE IF Len(ch) = 1 /\ type[ch[1]] = "element"
  THEN ch[1]
  ELSE IF type[parent] = "element"
  THEN parent
  ELSE NoTarget

Top == stack[Len(stack)]
HasChild == stack # <<>> /\ Top.offset < Len(children[Top.node])
CurChild == children[Top.node][Top.offset + 1]
AtText == HasChild /\ type[CurChild] = "text"

\* onVisit returns nothing, so the traversal goes on at the next offset.
NextOffset == [stack EXCEPT ![Len(stack)].offset = @ + 1]

\* Pruning decided on the text that follows the annotation, before trim().
StripAndPrune_RawEmpty(node, parent) ==
  LET v == StripAnnotation(value[node])
  IN [value |-> [value EXCEPT ![node] = v],
      children |->
        IF CloseIdx(value[node]) = Len(value[node])
        THEN [children EXCEPT ![parent] = Splice(@, node)]
        ELSE children]

\* The value and the child list after the annotation is stripped.
StripAndPrune(node, parent) ==
  LET v == StripAnnotation(value[node])
  IN [value |-> [value EXCEPT ![node] = v],
      children |->
        IF v = <<>>
        THEN [children EXCEPT ![parent] = Splice(@, node)]
        ELSE children]

Record(kind, node, index, parent, target) ==
  /\ before' = Tree
  /\ last' = [kind |-> kind, node |-> node, index |-> index,
              parent |-> parent, target |-> target]

\* onVisit, the value does not match attributeRegex: return.  (The guard on
\* a missing parent or index never holds for a text node below the root, and
\* properties ??= {} leaves the properties every hast element has.)
OnVisitNoMatch ==
  /\ AtText
  /\ ~Matches(value[CurChild])
  /\ stack' = NextOffset
  /\ visited' = Append(visited, CurChild)
  /\ Record("nomatch", CurChild, Top.offset, Top.node, NoTarget)
  /\ UNCHANGED <<type, children, value, properties, input>>

\* The empty style merged like a parsed one.
EmptyStyle_Merged(props) == MergeStyle(props, <<>>)

\* targetElement.properties.style = ''
EmptyStyle(props) == SetKey(props, STYLE, Str(<<>>))

\* onVisit, empty braces.
OnVisitEmpty ==
  /\ AtText
  /\ Matches(value[CurChild])
  /\ Trim(MatchBody(value[CurChild])) = <<>>
  /\ LET node == CurChild
         parent == Top.node
         index == Top.offset
         sp == StripAndPrune(node, parent)
         target == getTargetElement(sp.children[parent], parent, index)
     IN /\ value' = sp.value
        /\ children' = sp.children
        /\ properties' =
             IF target # NoTarget
             THEN [properties EXCEPT ![target] = EmptyStyle(@)]
             ELSE properties
        /\ Record("empty", node, index, parent, target)
        /\ visited' = Append(visited, node)
  /\ stack' = NextOffset
  /\ UNCHANGED <<type, input>>

\* onVisit merging into the properties the target had in the input tree.
OnVisitAttributes_FromInput ==
  /\ AtText
  /\ Matches(value[CurChild])
  /\ Trim(MatchBody(value[CurChild])) # <<>>
  /\ LET node == CurChild
         parent == Top.node
         index == Top.offset
         parsedAttributes == parseAttributes(Trim(MatchBody(value[node])))
         sp == StripAndPrune(node, parent)
         target == getTargetElement(sp.children[parent], parent, index)
     IN /\ value' = sp.value
        /\ children' = sp.children
        /\ properties' =
             IF target # NoTarget
             THEN [properties EXCEPT
                     ![target] = applyAttributes(input.properties[target],
                                                 parsedAttributes)]
             ELSE properties
        /\ Record("attributes", node, index, parent, target)
        /\ visited' = Append(visited, node)
  /\ stack' = NextOffset
  /\ UNCHANGED <<type, input>>

\* onVisit, a non-empty annotation body.
OnVisitAttributes ==
  /\ AtText
  /\ Matches(value[CurChild])
  /\ Trim(MatchBody(value[CurChild])) # <<>>
  /\ LET node == CurChild
         parent == Top.node
         index == Top.offset
         parsedAttributes == parseAttributes(Trim(MatchBody(value[node])))
         sp == StripAndPrune(node, parent)
         target == getTargetElement(sp.children[parent], parent, index)
     IN /\ value' = sp.value
        /\ children' = sp.children
        /\ properties' =
             IF target # NoTarget
             THEN [properties EXCEPT
                     ![target] = applyAttributes(@, parsedAttributes)]
             ELSE properties
        /\ Record("attributes", node, index, parent, target)
        /\ visited' = Append(visited, node)
  /\ stack' = NextOffset
  /\ UNCHANGED <<type, input>>

----------------------------------------------------------------------------
\* visit(tree, 'text', onVisit): depth first, an index over the live child
\* list of each parent.

\* The child at the offset is an element: its children are walked.
Descend ==
  /\ HasChild
  /\ type[CurChild] = "element"
  /\ stack' = Append(stack, [node |-> CurChild, offset |-> 0])
  /\ Record("descend", CurChild, Top.offset, Top.node, NoTarget)
  /\ UNCHANGED <<type, children, value, properties, visited, input>>

\* The child list is exhausted: back to the parent's next offset.
Ascend ==
  /\ Len(stack) > 1
  /\ ~HasChild
  /\ stack' = [Front(stack) EXCEPT ![Len(stack) - 1].offset = @ + 1]
  /\ Record("ascend", Top.node, 0, Top.node, NoTarget)
  /\ UNCHANGED <<type, children, value, properties, visited, input>>

\* The root's child list is exhausted: the transformer returns.
Finish ==
  /\ Len(stack) = 1
  /\ ~HasChild
  /\ stack' = <<>>
  /\ Record("finish", Root, 0, Root, NoTarget)
  /\ UNCHANGED <<type, children, value, properties, visited, input>>

Done == stack = <<>>

Next ==
  \/ OnVisitNoMatch
  \/ OnVisitEmpty
  \/ OnVisitAttributes
  \/ Descend
  \/ Ascend
  \/ Finish

Spec == Init /\ [][Next]_vars

SpecText == InitText /\ [][Next]_vars
SpecMerge == InitMerge /\ [][Next]_vars
SpecPair == InitPair /\ [][Next]_vars
SpecEdge == InitEdge /\ [][Next]_vars

----------------------------------------------------------------------------
\* Properties

IsVisit == last.kind \in {"nomatch", "empty", "attributes"}
IsMatch == last.kind \in {"empty", "attributes"}

\* The value the visited node had, and the state of its parent's child list
\* after the visit.
OldValue == before.value[last.node]
Siblings == children[last.parent]

\* What an annotated value does to the properties of its target.
AnnotationEffect(props, v) ==
  IF Trim(MatchBody(v)) = <<>>
  THEN SetKey(props, STYLE, Str(<<>>))
  ELSE applyAttributes(props, parseAttributes(Trim(MatchBody(v))))

\* No '{' at offset 0, or no '}' after it.
NotAnnotated(v) ==
  v = <<>> \/ v[1] # "{" \/ \A k \in 2..Len(v) : v[k] # "}"

\* C1: a visit of a text node whose value does not start with an annotation
\* changes nothing (value, child lists, properties), and a traversal of a
\* tree without any annotated text node ends with the tree it was given.
C1_NoMatchNoChange ==
  /\ (IsVisit /\ NotAnnotated(OldValue)) => Tree = before
  /\ (Done /\ \A x \in Nodes : type[x] = "text" => NotAnnotated(input.value[x]))
       => Tree = input

C1_Witness ==
  /\ Done
  /\ visited # <<>>
  /\ input.value[visited[1]] \in {TMiddle, TUnterminated}
  /\ Tree = input

PostElementApplies ==
  /\ last.index > 0
  /\ last.index <= Len(Siblings)
  /\ type[Siblings[last.index]] = "element"

SoleElementApplies ==
  /\ Len(Siblings) = 1
  /\ type[Siblings[1]] = "element"

\* C2: rule 1.  A matching visit at index i > 0 whose parent has, after
\* pruning, an element at position i - 1 targets that element, which is the
\* node that was at position i - 1 before pruning; the element receives the
\* annotation and the parent's properties stay as they were.
C2_PostElement ==
  (IsMatch /\ PostElementApplies) =>
    /\ last.target = Siblings[last.index]
    /\ Siblings[last.index] = before.children[last.parent][last.index]
    /\ properties[last.target] =
         AnnotationEffect(before.properties[last.target], OldValue)
    /\ properties[last.parent] = before.properties[last.parent]

C2_Witness ==
  /\ IsMatch
  /\ PostElementApplies
  /\ Len(Siblings) < Len(before.children[last.parent])
  /\ type[last.parent] = "element"
  /\ last.target = Siblings[last.index]
  /\ properties[last.target] # before.properties[last.target]

\* C3: rule 3.  When neither rule 1 nor rule 2 applies and the parent is an
\* element, the parent is the target.  An annotated text at index 0 that
\* keeps text after stripping resolves to its parent element, and no
\* sibling's properties change.
C3_ParentTarget ==
  /\ (IsMatch /\ ~PostElementApplies /\ ~SoleElementApplies
        /\ type[last.parent] = "element")
       => /\ last.target = last.parent
          /\ properties[last.parent] =
               AnnotationEffect(before.properties[last.parent], OldValue)
  /\ (IsMatch /\ last.index = 0 /\ value[last.node] # <<>>
        /\ type[last.parent] = "element")
       => /\ last.target = last.parent
          /\ \A i \in DOMAIN Siblings :
               properties[Siblings[i]] = before.properties[Siblings[i]]

C3_Witness ==
  /\ IsMatch
  /\ last.index = 0
  /\ value[last.node] # <<>>
  /\ type[last.parent] = "element"
  /\ Len(Siblings) > 1
  /\ type[Siblings[2]] = "element"
  /\ last.target = last.parent
  /\ properties[last.parent] # before.properties[last.parent]

\* C4: rule 2.  When rule 1 does not apply and the child list after pruning
\* is a single element, that element is the target and the parent receives
\* nothing: children [annotation-only text, element].
C4_SoleElement ==
  (IsMatch /\ ~PostElementApplies /\ SoleElementApplies) =>
    /\ last.target = Siblings[1]
    /\ last.target # last.parent
    /\ properties[last.target] =
         AnnotationEffect(before.properties[last.target], OldValue)
    /\ properties[last.parent] = before.properties[last.parent]
    /\ before.children[last.parent] = <<last.node, last.target>>

C4_Witness ==
  /\ IsMatch
  /\ last.index = 0
  /\ last.target # NoTarget
  /\ Siblings = <<last.target>>
  /\ before.children[last.parent] = <<last.node, last.target>>
  /\ type[last.parent] = "element"
  /\ properties[last.target] # before.properties[last.target]

IsDeclarationList(body) ==
  LET ws == Split(body, " ")
  IN /\ body # <<>>
     /\ Len(ws) % 2 = 0
     /\ \A i \in DOMAIN ws :
          /\ ws[i] # <<>>
          /\ (i % 2 = 1) => (EndsWith(ws[i], ":") /\ IndexOf(ws[i], ":") = Len(ws[i]))
          /\ (i % 2 = 0) => EndsWith(ws[i], ";")

\* C6: an annotation whose body is a list of declarations 'prop: value;',
\* whatever the values begin with or contain, applied to a target without a
\* style, leaves the target with the trimmed body as its style and with no
\* other property set or changed.
C6_StyleIsBody ==
  (/\ last.kind = "attributes"
   /\ last.target # NoTarget
   /\ IsDeclarationList(Trim(MatchBody(OldValue)))
   /\ STYLE \notin DOMAIN before.properties[last.target])
    => properties[last.target] =
         SetKey(before.properties[last.target], STYLE,
                Str(Trim(MatchBody(OldValue))))

\* The text that follows the first '}' of an annotated value.
AfterAnnotation(v) ==
  LET k == CHOOSE i \in DOMAIN v : v[i] = "}" /\ \A j \in 1..(i - 1) : v[j] # "}"
  IN SubSeq(v, k + 1, Len(v))

AllWhite(s) == \A i \in DOMAIN s : s[i] \in WS

Range(s) == {s[i] : i \in DOMAIN s}

\* C7: after a matching visit the node's value is what followed the first
\* '}' of the old value, less the white space at its two ends and nothing
\* else.
C7_StrippedValue ==
  IsMatch =>
    LET rest == AfterAnnotation(OldValue)
        v == value[last.node]
    IN /\ \E i \in 0..Len(rest) :
            /\ AllWhite(SubSeq(rest, 1, i))
            /\ AllWhite(SubSeq(rest, i + Len(v) + 1, Len(rest)))
            /\ i + Len(v) <= Len(rest)
            /\ v = SubSeq(rest, i + 1, i + Len(v))
       /\ v # <<>> => (v[1] \notin WS /\ Last(v) \notin WS)

C7_Witness ==
  /\ IsMatch
  /\ AfterAnnotation(OldValue) = <<" ", "x", " ", "y", " ">>
  /\ value[last.node] = <<"x", " ", "y">>

Without(ch, node) == SelectSeq(ch, LAMBDA x : x # node)

\* C8: after a matching visit the node is gone from its parent's child list
\* exactly when only white space (or nothing) followed the annotation; the
\* other children keep their places, and a node that keeps text stays where
\* it was.
C8_PruneIffEmpty ==
  IsMatch =>
    LET old == before.children[last.parent]
    IN IF AllWhite(AfterAnnotation(OldValue))
       THEN Siblings = Without(old, last.node)
       ELSE Siblings = old /\ Siblings[last.index + 1] = last.node

C8_Witness ==
  /\ IsMatch
  /\ AfterAnnotation(OldValue) = <<" ">>
  /\ Len(before.children[last.parent]) = 2
  /\ Len(Siblings) = 1

\* The parent under study and its child list in the input.
Parent == IF type[P] = "element" THEN P ELSE Root
InputChildren == input.children[Parent]

AnnotatedKept(x) ==
  /\ type[x] = "text"
  /\ ~NotAnnotated(input.value[x])
  /\ ~AllWhite(AfterAnnotation(input.value[x]))

LeafElement(x) == type[x] = "element" /\ input.children[x] = <<>>

\* Children [E1, T1, E2, T2], both texts annotated and keeping text.
Alternating ==
  /\ Len(InputChildren) = 4
  /\ LeafElement(InputChildren[1]) /\ AnnotatedKept(InputChildren[2])
  /\ LeafElement(InputChildren[3]) /\ AnnotatedKept(InputChildren[4])

\* The element directly before x in the input child list of parent, or
\* NoTarget.
InputPrevElement(parent, x) ==
  LET ch == input.children[parent]
      k == IndexOf(ch, x)
  IN IF k > 1 /\ type[ch[k - 1]] = "element" THEN ch[k - 1] ELSE NoTarget

\* C9: for children [E1, T1, E2, T2] with annotated texts that keep text, the
\* traversal ends with E1 holding T1's annotation, E2 holding T2's, the
\* parent's properties and child list as given and both texts stripped and
\* trimmed; and every matching visit of a text that directly follows an
\* element in the input targets that element.
C9_EachToItsPredecessor ==
  /\ (Done /\ Alternating) =>
       /\ \A i \in {1, 3} :
            properties[InputChildren[i]] =
              AnnotationEffect(input.properties[InputChildren[i]],
                               input.value[InputChildren[i + 1]])
       /\ properties[Parent] = input.properties[Parent]
       /\ children[Parent] = InputChildren
       /\ \A i \in {2, 4} :
            value[InputChildren[i]] = StripAnnotation(input.value[InputChildren[i]])
  /\ (IsMatch /\ InputPrevElement(last.parent, last.node) # NoTarget) =>
       last.target = InputPrevElement(last.parent, last.node)

C9_Witness ==
  /\ Done
  /\ Alternating
  /\ Parent = P
  /\ input.value[InputChildren[2]] = TKept
  /\ input.value[InputChildren[4]] = TClass
  /\ properties[InputChildren[1]] # properties[InputChildren[3]]
  /\ properties[InputChildren[3]] # input.properties[InputChildren[3]]

\* The text nodes of the input below node n, in document order.
RECURSIVE InputTexts(_)
RECURSIVE InputTextsOf(_, _)
InputTexts(n) ==
  IF type[n] = "text" THEN <<n>> ELSE InputTextsOf(input.children[n], 1)
InputTextsOf(ch, i) ==
  IF i > Len(ch) THEN <<>> ELSE InputTexts(ch[i]) \o InputTextsOf(ch, i + 1)

\* C10: when the traversal is over, onVisit has been called once for every
\* text node of the input tree, in document order.
C10_EveryTextVisitedOnce ==
  Done => visited = InputTexts(Root)

\* The text between the '{' at offset 0 and the first '}'.
AnnotationBody(v) ==
  LET k == CHOOSE i \in DOMAIN v : v[i] = "}" /\ \A j \in 1..(i - 1) : v[j] # "}"
  IN SubSeq(v, 2, k - 1)

\* v is rest less the white space at its two ends.
IsTrimOf(v, rest) ==
  /\ \E i \in 0..Len(rest) :
       /\ i + Len(v) <= Len(rest)
       /\ AllWhite(SubSeq(rest, 1, i))
       /\ AllWhite(SubSeq(rest, i + Len(v) + 1, Len(rest)))
       /\ v = SubSeq(rest, i + 1, i + Len(v))
  /\ v # <<>> => (v[1] \notin WS /\ Last(v) \notin WS)

\* C11: an annotation whose body is empty or white space only is stripped
\* from the text (the node pruned when nothing is left) and the target's
\* style becomes the empty string, whatever it was; every other property of
\* the target stays as it was.
C11_EmptyBraces ==
  (IsMatch /\ AllWhite(AnnotationBody(OldValue))) =>
    /\ AllWhite(AfterAnnotation(OldValue)) <=> last.node \notin Range(Siblings)
    /\ IsTrimOf(value[last.node], AfterAnnotation(OldValue))
    /\ last.target # NoTarget =>
         /\ DOMAIN properties[last.target] =
              DOMAIN before.properties[last.target] \cup {STYLE}
         /\ properties[last.target][STYLE] = Str(<<>>)
         /\ \A k \in DOMAIN before.properties[last.target] \ {STYLE} :
              properties[last.target][k] = before.properties[last.target][k]

C11_Witness ==
  /\ IsMatch
  /\ AnnotationBody(OldValue) = <<" ", " ">>
  /\ last.target # NoTarget
  /\ STYLE \in DOMAIN before.properties[last.target]
  /\ before.properties[last.target][STYLE] # Str(<<>>)
  /\ properties[last.target][STYLE] = Str(<<>>)
  /\ ID \in DOMAIN properties[last.target]

\* The tokens of an annotation body that has no white space inside quotes,
\* and the class the classification rules give a token.
BodyTokens(v) == FilterNonEmpty(Split(AnnotationBody(v), " "))
RuleOf(t) ==
  IF t[1] = "." THEN "class"
  ELSE IF t[1] = "#" THEN "id"
  ELSE IF (\E i \in DOMAIN t : t[i] = "=") /\ (\A i \in DOMAIN t : t[i] # ":")
       THEN "attribute"
  ELSE IF \E i \in DOMAIN t : t[i] = ":" THEN "declaration"
  ELSE "discarded"
IsClassRule(t) == RuleOf(t) = "class"
IsIdRule(t) == RuleOf(t) = "id"
IsAttributeRule(t) == RuleOf(t) = "attribute"
IsDeclarationRule(t) == RuleOf(t) = "declaration"
KeyOf(t) == SubSeq(t, 1, (CHOOSE i \in DOMAIN t :
                            t[i] = "=" /\ \A j \in 1..(i - 1) : t[j] # "=") - 1)
ParsedBody(v) == parseAttributes(Trim(AnnotationBody(v)))

DATACATEGORY == <<"d", "a", "t", "a", "-", "c", "a", "t", "e", "g", "o", "r", "y">>
ExpectedMixed ==
  [classes |-> <<<<"c", "a", "r", "d">>, <<"f", "e", "a", "t", "u", "r", "e", "d">>>>,
   id |-> <<<<"m", "a", "i", "n", "-", "a", "r", "t", "i", "c", "l", "e">>>>,
   attributes |->
     (STYLE :> <<"c", "o", "l", "o", "r", ":", " ", "b", "l", "u", "e", ";", " ", "p", "a", "d", "d", "i", "n", "g", ":", " ", "2", "0", "p", "x", ";">>)
       @@ (DATACATEGORY :> <<"t", "e", "c", "h">>)]

\* C12: the classes are the tokens that start with '.', in order; the id is
\* the last token that starts with '#'; the keys are those of the tokens with
\* '=' and no ':' that start with neither, and style when a token with ':'
\* starts with neither; tokens of no rule add no class, id or key. The
\* documented body yields classes card and featured, id main-article, style
\* 'color: blue; padding: 20px;' and data-category = tech.
C12_Classification ==
  last.kind = "attributes" =>
    LET toks == BodyTokens(OldValue)
        parsed == ParsedBody(OldValue)
        cls == SelectSeq(toks, IsClassRule)
        ids == SelectSeq(toks, IsIdRule)
        ats == SelectSeq(toks, IsAttributeRule)
        dcl == SelectSeq(toks, IsDeclarationRule)
    IN /\ parsed.classes = [i \in 1..Len(cls) |-> Tail(cls[i])]
       /\ parsed.id = (IF ids = <<>> THEN <<>> ELSE <<Tail(Last(ids))>>)
       /\ DOMAIN parsed.attributes =
            {KeyOf(ats[i]) : i \in DOMAIN ats}
              \cup (IF dcl = <<>> THEN {} ELSE {STYLE})
       /\ AnnotationBody(OldValue) = BMixed => parsed = ExpectedMixed

C12_Witness ==
  /\ last.kind = "attributes"
  /\ BodyTokens(OldValue) = <<MEqColon, MClassEq>>
  /\ last.target # NoTarget
  /\ DOMAIN properties[last.target] = {STYLE, CLASSNAME}
  /\ properties[last.target][CLASSNAME] = Str(Tail(MClassEq))

\* The properties of the target before the visit, and its style then ('' when
\* it had none).
OldProps == before.properties[last.target]
OldStyle == IF STYLE \in DOMAIN OldProps THEN OldProps[STYLE].items[1] ELSE <<>>
IsMerge == last.kind = "attributes" /\ last.target # NoTarget

\* C13: when the annotation yields a style v and the target's style was e,
\* the stored style is e, then '; ' when e is not empty and does not end in
\* ';', ' ' when e is not empty and ends in ';', nothing when e is empty or
\* absent, then v.
C13_StyleMerge ==
  (IsMerge /\ STYLE \in DOMAIN ParsedBody(OldValue).attributes) =>
    LET e == OldStyle
        v == ParsedBody(OldValue).attributes[STYLE]
        sep == IF e = <<>> THEN <<>>
               ELSE IF e[Len(e)] = ";" THEN <<" ">>
               ELSE <<";", " ">>
    IN /\ STYLE \in DOMAIN properties[last.target]
       /\ properties[last.target][STYLE] = Str(e \o sep \o v)

C13_Witness ==
  /\ IsMerge
  /\ OldStyle = <<"p", ":", "q">>
  /\ BodyTokens(OldValue) = <<MDecl>>
  /\ properties[last.target][STYLE] =
       Str(<<"p", ":", "q", ";", " ", "c", ":", "d", ";">>)

\* The class names the target had before the visit, the class names of the
\* annotation, and a list cut down to the first occurrence of each member.
OldClasses ==
  IF CLASSNAME \notin DOMAIN OldProps THEN <<>>
  ELSE IF OldProps[CLASSNAME].isArray THEN OldProps[CLASSNAME].items
  ELSE FilterNonEmpty(Split(OldProps[CLASSNAME].items[1], " "))
NewClasses ==
  LET cls == SelectSeq(BodyTokens(OldValue), IsClassRule)
  IN [i \in 1..Len(cls) |-> Tail(cls[i])]
FirstOccurrences(xs) ==
  LET first == {i \in DOMAIN xs : \A j \in 1..(i - 1) : xs[j] # xs[i]}
      nth(n) == CHOOSE i \in first : Cardinality({j \in first : j < i}) = n - 1
  IN [n \in 1..Cardinality(first) |-> xs[nth(n)]]
NamesClassKey ==
  \E i \in DOMAIN BodyTokens(OldValue) :
    /\ IsAttributeRule(BodyTokens(OldValue)[i])
    /\ KeyOf(BodyTokens(OldValue)[i]) = CLASSNAME

\* C14: when the annotation has class tokens (and no className= token), the
\* target's class becomes the string of its old classes followed by the new
\* ones, each kept at its first occurrence only, with one space between two
\* names; 'existing' and '.new .x' give 'existing new x'. With no class token
\* the class attribute is what it was.
C14_ClassMerge ==
  (IsMerge /\ ~NamesClassKey) =>
    /\ NewClasses # <<>> =>
         /\ CLASSNAME \in DOMAIN properties[last.target]
         /\ properties[last.target][CLASSNAME] =
              Str(Join(FirstOccurrences(OldClasses \o NewClasses), <<" ">>))
    /\ NewClasses = <<>> =>
         /\ CLASSNAME \in DOMAIN properties[last.target]
              <=> CLASSNAME \in DOMAIN OldProps
         /\ CLASSNAME \in DOMAIN OldProps =>
              properties[last.target][CLASSNAME] = OldProps[CLASSNAME]
    /\ (OldProps = PropsBlank /\ AnnotationBody(OldValue) = BNewClasses) =>
         properties[last.target][CLASSNAME] = Str(<<"e", "x", "i", "s", "t", "i", "n", "g", " ", "n", "e", "w", " ", "x">>)

C14_Witness ==
  /\ IsMerge
  /\ OldProps = PropsSome
  /\ BodyTokens(OldValue) = <<MNewClass, MClass>>
  /\ properties[last.target][CLASSNAME] =
       Str(<<"k", " ", "n", " ", "w">>)

\* The keys an annotation names: class, id and style by its class, id and
\* declaration tokens (style also by empty braces), and the keys of its
\* key=value tokens.
NamedKeys(v) ==
  LET toks == BodyTokens(v)
      has(rule) == \E i \in DOMAIN toks : RuleOf(toks[i]) = rule
  IN (IF has("class") THEN {CLASSNAME} ELSE {})
       \cup (IF has("id") THEN {ID} ELSE {})
       \cup (IF has("declaration") \/ toks = <<>> THEN {STYLE} ELSE {})
       \cup {KeyOf(toks[i]) : i \in {j \in DOMAIN toks : IsAttributeRule(toks[j])}}

\* C15: after a matching visit every element other than the target has the
\* properties it had, and the target has every property it had under a key
\* the annotation does not name, and no new key the annotation does not name.
C15_Frame ==
  IsMatch =>
    \A x \in Nodes :
      IF x = last.target
      THEN /\ \A k \in DOMAIN before.properties[x] \ NamedKeys(OldValue) :
                /\ k \in DOMAIN properties[x]
                /\ properties[x][k] = before.properties[x][k]
           /\ DOMAIN properties[x] \subseteq
                DOMAIN before.properties[x] \cup NamedKeys(OldValue)
      ELSE properties[x] = before.properties[x]

C15_Witness ==
  /\ IsMerge
  /\ last.target = Child(1)
  /\ OldProps = PropsSemi
  /\ BodyTokens(OldValue) = <<MId, MAttr>>
  /\ properties[last.target] =
       SetKey(SetKey(PropsSemi, ID, Str(<<"m">>)), KEYX, Str(<<"1">>))
  /\ properties[P] = PropsSemi
  /\ properties[G] = PropsSemi

\* The id tokens of the annotation, and whether it has an id= token.
IdTokens == SelectSeq(BodyTokens(OldValue), IsIdRule)
NamesIdKey ==
  \E i \in DOMAIN BodyTokens(OldValue) :
    /\ IsAttributeRule(BodyTokens(OldValue)[i])
    /\ KeyOf(BodyTokens(OldValue)[i]) = ID

\* C16: when the annotation has a token that starts with '#' (and no id=
\* token), the target's id after the merge is the last such token without
\* its '#', whatever the id was.
C16_IdIsLastIdToken ==
  (IsMerge /\ IdTokens # <<>> /\ ~NamesIdKey) =>
    /\ ID \in DOMAIN properties[last.target]
    /\ properties[last.target][ID] = Str(Tail(Last(IdTokens)))

\* C16, amended: with an id token and no id= token, the target's id after
\* the merge is the last id token without its '#' when that is not empty,
\* whatever the id was; when the last id token is a bare '#' the id is what
\* it was before the visit.
C16_LastNamedIdWins ==
  (IsMerge /\ IdTokens # <<>> /\ ~NamesIdKey) =>
    IF Last(IdTokens) # <<"#">>
    THEN /\ ID \in DOMAIN properties[last.target]
         /\ properties[last.target][ID] = Str(Tail(Last(IdTokens)))
    ELSE /\ ID \in DOMAIN properties[last.target] <=> ID \in DOMAIN OldProps
         /\ ID \in DOMAIN OldProps =>
              properties[last.target][ID] = OldProps[ID]

C16_Witness ==
  /\ IsMerge
  /\ BodyTokens(OldValue) = <<MIdColon, MId>>
  /\ OldProps = PropsSome
  /\ properties[last.target][ID] = Str(<<"m">>)

\* The value of a key=value token: what follows the first '=', less one pair
\* of quotes when it starts and ends with the same quote character.
ValueOf(t) ==
  LET v == SubSeq(t, Len(KeyOf(t)) + 2, Len(t))
  IN IF Len(v) >= 2 /\ v[1] \in {"\"", "'"} /\ v[Len(v)] = v[1]
     THEN SubSeq(v, 2, Len(v) - 1)
     ELSE v

\* The last key=value token of the annotation for each key.
LastAttributeTokens ==
  LET toks == BodyTokens(OldValue)
  IN {toks[i] : i \in {j \in DOMAIN toks :
        /\ IsAttributeRule(toks[j])
        /\ \A k \in (j + 1)..Len(toks) :
             ~(IsAttributeRule(toks[k]) /\ KeyOf(toks[k]) = KeyOf(toks[j]))}}

\* C17: for every key other than style, the parsed value and the value stored
\* on the target are what follows the first '=' of the last token with that
\* key, with one pair of quotes removed only when the value starts and ends
\* with the same quote character.
C17_AttributeValue ==
  IsMerge =>
    \A t \in LastAttributeTokens :
      KeyOf(t) # STYLE =>
        /\ KeyOf(t) \in DOMAIN ParsedBody(OldValue).attributes
        /\ ParsedBody(OldValue).attributes[KeyOf(t)] = ValueOf(t)
        /\ KeyOf(t) \in DOMAIN properties[last.target]
        /\ properties[last.target][KeyOf(t)] = Str(ValueOf(t))

\* Declarations that each end in ';', with one space between two of them and
\* no white space at the two ends.
IsDeclarationSequence(s) ==
  \/ s = <<>>
  \/ /\ s[1] \notin WS
     /\ s[Len(s)] = ";"
     /\ \A i \in 1..(Len(s) - 1) :
          s[i] = ";" => (s[i + 1] = " " /\ i + 2 <= Len(s) /\ s[i + 2] \notin WS)

\* C18: the style an annotation yields, and the style stored on the target
\* after the merge, are sequences of declarations that each end in ';', with
\* one space between two of them and no white space at the two ends.
C18_StyleIsDeclarations ==
  (IsMerge /\ STYLE \in DOMAIN ParsedBody(OldValue).attributes) =>
    /\ IsDeclarationSequence(ParsedBody(OldValue).attributes[STYLE])
    /\ IsDeclarationSequence(properties[last.target][STYLE].items[1])

\* The members of ch that are elements, and those that are members of now.
ElementsOf(ch) ==
  LET isElement(n) == type[n] = "element" IN SelectSeq(ch, isElement)
Remaining(ch, now) ==
  LET stays(n) == n \in Range(now) IN SelectSeq(ch, stays)

\* C19: at every moment each child list is its input list without some of
\* its members, in the input order, and has all its input elements; a visit
\* leaves every child list as it was, but for a matching visit that may take
\* the visited text, and nothing else, out of its parent's list.
C19_NodesKept ==
  /\ \A x \in Nodes :
       /\ children[x] = Remaining(input.children[x], children[x])
       /\ ElementsOf(children[x]) = ElementsOf(input.children[x])
  /\ IsVisit =>
       \A x \in Nodes :
         \/ children[x] = before.children[x]
         \/ /\ IsMatch
            /\ x = last.parent
            /\ type[last.node] = "text"
            /\ children[x] = Without(before.children[x], last.node)

C19_Witness ==
  /\ Done
  /\ \E x \in Nodes :
       /\ Len(children[x]) + 2 <= Len(input.children[x])
       /\ Len(ElementsOf(children[x])) >= 2
       /\ ElementsOf(children[x]) = children[x]

\* C20: a matching visit under the root to which neither the post-element
\* rule nor the sole-element rule applies has no target and leaves the
\* properties of every node as they were; the node's value is still what
\* followed the annotation, trimmed, and the node is still pruned when that
\* is empty.
C20_NoTarget ==
  (IsMatch /\ type[last.parent] = "root"
     /\ ~PostElementApplies /\ ~SoleElementApplies) =>
    /\ last.target = NoTarget
    /\ properties = before.properties
    /\ IsTrimOf(value[last.node], AfterAnnotation(OldValue))
    /\ AllWhite(AfterAnnotation(OldValue)) <=> last.node \notin Range(Siblings)

C20_Witness ==
  /\ last.kind = "attributes"
  /\ type[last.parent] = "root"
  /\ ~PostElementApplies
  /\ ~SoleElementApplies
  /\ last.node \notin Range(Siblings)
  /\ \E i \in DOMAIN Siblings :
       /\ type[Siblings[i]] = "element"
       /\ properties[Siblings[i]] = PropsSome
  /\ properties = before.properties

\* The declarations of a token sequence: each token that starts a declaration,
\* with the tokens after it up to the first that stops the absorption, joined
\* by single spaces and closed by a ';' when it does not end in one.
StopsAbsorption(t) ==
  \/ t[1] = "."
  \/ t[1] = "#"
  \/ (\E i \in DOMAIN t : t[i] = "=") /\ (\A i \in DOMAIN t : t[i] # ":")
  \/ \E i \in DOMAIN t : t[i] = ":"
DeclarationsOf(toks) ==
  LET starts == {i \in DOMAIN toks : IsDeclarationRule(toks[i])}
      nth(n) == CHOOSE i \in starts : Cardinality({j \in starts : j < i}) = n - 1
      stop(i) == CHOOSE k \in (i + 1)..(Len(toks) + 1) :
                   /\ k <= Len(toks) => StopsAbsorption(toks[k])
                   /\ \A m \in (i + 1)..(k - 1) : ~StopsAbsorption(toks[m])
      text(i) == Join(SubSeq(toks, i, stop(i) - 1), <<" ">>)
      closed(d) == IF d[Len(d)] = ";" THEN d ELSE d \o <<";">>
  IN [n \in 1..Cardinality(starts) |-> closed(text(nth(n)))]
StyleTokens ==
  SelectSeq(BodyTokens(OldValue),
            LAMBDA t : IsAttributeRule(t) /\ KeyOf(t) = STYLE)

\* C21: for an annotation with a style= token, the parsed style is the
\* declarations joined by single spaces when there is a declaration, wherever
\* the style= token stands, and the value of the style= token when there is
\* none.
C21_DeclarationsReplaceStyleToken ==
  (last.kind = "attributes" /\ StyleTokens # <<>>) =>
    LET decls == DeclarationsOf(BodyTokens(OldValue))
        parsed == ParsedBody(OldValue)
    IN /\ STYLE \in DOMAIN parsed.attributes
       /\ parsed.attributes[STYLE] =
            (IF decls # <<>> THEN Join(decls, <<" ">>)
             ELSE ValueOf(Last(StyleTokens)))

C21_Witness ==
  /\ IsMerge
  /\ BodyTokens(OldValue) = <<MDecl, MStyleAttr>>
  /\ OldProps = PropsNone
  /\ properties[last.target] = (STYLE :> Str(<<"c", ":", "d", ";">>))

\* C22: the parsed style is the declarations in token order, joined by single
\* spaces: each starts at a token with ':' that starts with neither '.' nor
\* '#', takes the tokens up to the first with a leading '.' or '#', with '='
\* and no ':', or with ':', and gets a ';' only when it does not end in one;
\* the token that stops it is classified as usual.
C22_Absorption ==
  (last.kind = "attributes" /\ StyleTokens = <<>>) =>
    LET toks == BodyTokens(OldValue)
        decls == DeclarationsOf(toks)
        parsed == ParsedBody(OldValue)
        ats == SelectSeq(toks, IsAttributeRule)
    IN /\ decls # <<>> =>
            /\ STYLE \in DOMAIN parsed.attributes
            /\ parsed.attributes[STYLE] = Join(decls, <<" ">>)
       /\ decls = <<>> => STYLE \notin DOMAIN parsed.attributes
       /\ parsed.classes = NewClasses
       /\ parsed.id = (IF IdTokens = <<>> THEN <<>> ELSE <<Tail(Last(IdTokens))>>)
       /\ DOMAIN parsed.attributes \ {STYLE} = {KeyOf(ats[i]) : i \in DOMAIN ats}

C22_Witness ==
  /\ IsMerge
  /\ BodyTokens(OldValue) = <<WProp, WValue>>
  /\ OldProps = PropsNone
  /\ properties[last.target] = (STYLE :> Str(<<"a", ":", " ", "b", ";">>))

\* What two annotated values name together, in document order: classes, id
\* tokens, key=value tokens and the styles of their declarations.
PairTokens(v1, v2) == BodyTokens(v1) \o BodyTokens(v2)
StyleOf(v) == Join(DeclarationsOf(BodyTokens(v)), <<" ">>)
StyleAfter(e, v) ==
  IF v = <<>> THEN e
  ELSE IF e = <<>> THEN v
  ELSE IF e[Len(e)] = ";" THEN e \o <<" ">> \o v
  ELSE e \o <<";", " ">> \o v
MergedPair(p0, v1, v2) ==
  LET toks == PairTokens(v1, v2)
      cls == SelectSeq(toks, IsClassRule)
      ids == SelectSeq(toks, IsIdRule)
      ats == SelectSeq(toks, IsAttributeRule)
      old == IF CLASSNAME \notin DOMAIN p0 THEN <<>>
             ELSE IF p0[CLASSNAME].isArray THEN p0[CLASSNAME].items
             ELSE FilterNonEmpty(Split(p0[CLASSNAME].items[1], " "))
      e0 == IF STYLE \in DOMAIN p0 THEN p0[STYLE].items[1] ELSE <<>>
      styled == StyleOf(v1) # <<>> \/ StyleOf(v2) # <<>>
      lastOf(k) == ats[CHOOSE i \in DOMAIN ats :
                         /\ KeyOf(ats[i]) = k
                         /\ \A j \in (i + 1)..Len(ats) : KeyOf(ats[j]) # k]
      keys == DOMAIN p0
                \cup (IF cls # <<>> THEN {CLASSNAME} ELSE {})
                \cup (IF ids # <<>> THEN {ID} ELSE {})
                \cup (IF styled THEN {STYLE} ELSE {})
                \cup {KeyOf(ats[i]) : i \in DOMAIN ats}
  IN [k \in keys |->
        IF k = CLASSNAME /\ cls # <<>>
        THEN Str(Join(FirstOccurrences(old \o [i \in DOMAIN cls |-> Tail(cls[i])]),
                      <<" ">>))
        ELSE IF k = ID /\ ids # <<>> THEN Str(Tail(Last(ids)))
        ELSE IF k = STYLE /\ styled
        THEN Str(StyleAfter(StyleAfter(e0, StyleOf(v1)), StyleOf(v2)))
        ELSE IF \E i \in DOMAIN ats : KeyOf(ats[i]) = k THEN Str(ValueOf(lastOf(k)))
        ELSE p0[k]]

HasBody(v) == ~NotAnnotated(v) /\ ~AllWhite(AnnotationBody(v))
BothVisited ==
  /\ Done
  /\ Len(input.children[P]) = 2
  /\ \A i \in 1..2 :
       /\ input.children[P][i] \in Range(visited)
       /\ HasBody(input.value[input.children[P][i]])

\* C23: when the two texts of a parent are both visited and both carry an
\* annotation with a body, the parent, which is the target of both, ends with
\* the classes of the first then of the second, each once; with its style
\* followed by the declarations of the first and then of the second; and
\* with the id and the key values of the later annotation that names them.
C23_LaterSeesEarlier ==
  BothVisited =>
    properties[P] =
      MergedPair(input.properties[P], input.value[input.children[P][1]],
                 input.value[input.children[P][2]])

C23_Witness ==
  /\ BothVisited
  /\ input.properties[P] = PropsNone
  /\ AnnotationBody(input.value[input.children[P][1]]) = BFirst
  /\ AnnotationBody(input.value[input.children[P][2]]) = BSecond
  /\ properties[P] =
       (CLASSNAME :> Str(<<"k", " ", "n">>)) @@ (ID :> Str(<<"o">>))
         @@ (STYLE :> Str(<<"c", ":", "d", ";", " ", "e", ":", " ", "f", ";">>))
         @@ (KEYX :> Str(<<"2">>))

\* C24: a matching visit parses the text between the '{' and the first '}'
\* of the value and nothing more, and leaves in the node what follows that
\* '}', trimmed, also when the '}' stands inside a quoted value or after a
\* second '{'.
C24_FirstCloseEndsBody ==
  IsMatch =>
    /\ IsTrimOf(value[last.node], AfterAnnotation(OldValue))
    /\ last.target # NoTarget =>
         properties[last.target] =
           (IF AllWhite(AnnotationBody(OldValue))
            THEN SetKey(OldProps, STYLE, Str(<<>>))
            ELSE applyAttributes(OldProps, ParsedBody(OldValue)))

C24_Witness ==
  /\ IsMerge
  /\ OldValue = TQuotedClose
  /\ value[last.node] = <<"b", "\"", "}", "y">>
  /\ OldProps = PropsNone
  /\ properties[last.target] = (KEYX :> Str(<<>>))

C24_WitnessNested ==
  /\ IsMerge
  /\ OldValue = TNested
  /\ value[last.node] = <<"w", "}", "z">>

\* The quote that is open after the first i characters of s ("" for none),
\* and the pieces of s between the white space that is not inside quotes.
RECURSIVE OpenQuote(_, _)
OpenQuote(s, i) ==
  IF i = 0 THEN ""
  ELSE LET q == OpenQuote(s, i - 1)
       IN IF q = "" THEN (IF s[i] \in {"\"", "'"} THEN s[i] ELSE "")
          ELSE IF s[i] = q THEN "" ELSE q
QuotesClosed(s) == OpenQuote(s, Len(s)) = ""
IsBreak(s, i) == s[i] \in WS /\ OpenQuote(s, i) = ""
PiecesOf(s) ==
  LET starts == {i \in DOMAIN s :
                   ~IsBreak(s, i) /\ (i = 1 \/ IsBreak(s, i - 1))}
      nth(n) == CHOOSE i \in starts : Cardinality({j \in starts : j < i}) = n - 1
      end(i) == CHOOSE k \in i..Len(s) :
                  /\ \A m \in i..k : ~IsBreak(s, m)
                  /\ k = Len(s) \/ IsBreak(s, k + 1)
  IN [n \in 1..Cardinality(starts) |-> SubSeq(s, nth(n), end(nth(n)))]

ARIALABEL == <<"a", "r", "i", "a", "-", "l", "a", "b", "e", "l">>

\* C25: for a body whose quotes are all closed, the tokens are the pieces
\* between the white space that is not inside quotes, so a quoted run with
\* white space in it, and a quoted run next to other characters, stay in one
\* token; 'aria-label="Featured article"' sets aria-label to 'Featured
\* article'; an empty body has no token.
C25_Tokenizer ==
  IsMatch =>
    LET body == AnnotationBody(OldValue)
    IN /\ QuotesClosed(body) => Tokenize(Trim(body)) = PiecesOf(body)
       /\ AllWhite(body) => Tokenize(Trim(body)) = <<>>
       /\ (body = BAriaLabel /\ last.target # NoTarget) =>
            /\ ARIALABEL \in DOMAIN properties[last.target]
            /\ properties[last.target][ARIALABEL] = Str(<<"F", "e", "a", "t", "u", "r", "e", "d", " ", "a", "r", "t", "i", "c", "l", "e">>)

C25_Witness ==
  /\ IsMerge
  /\ AnnotationBody(OldValue) = Join(<<EAdjacent, ESingle>>, <<" ">>)
  /\ OldProps = PropsNone
  /\ properties[last.target] =
       (<<"v">> :> Str(<<"a", "\"", "b", " ", "c", "\"", "d">>))
         @@ (<<"u">> :> Str(<<"p", " ", "\"", "q">>))

\* The tokens that are neither of a rule nor absorbed by a declaration, and
\* the body without them.
IsDropped(toks, i) ==
  /\ RuleOf(toks[i]) = "discarded"
  /\ ~\E j \in 1..(i - 1) :
        /\ IsDeclarationRule(toks[j])
        /\ \A m \in (j + 1)..i : ~StopsAbsorption(toks[m])
WithoutDropped(toks) ==
  LET kept == {i \in DOMAIN toks : ~IsDropped(toks, i)}
      nth(n) == CHOOSE i \in kept : Cardinality({j \in kept : j < i}) = n - 1
  IN [n \in 1..Cardinality(kept) |-> toks[nth(n)]]

\* C26: an annotation with tokens of no shape that no declaration absorbs is
\* stripped from the text like any other, parses to what it parses to
\* without those tokens, and is applied so; made of such tokens only, it
\* leaves the properties of the target as they were.
C26_UnknownTokenDropped ==
  (last.kind = "attributes"
     /\ \E i \in DOMAIN BodyTokens(OldValue) : IsDropped(BodyTokens(OldValue), i)) =>
    LET toks == BodyTokens(OldValue)
        rest == WithoutDropped(toks)
    IN /\ IsTrimOf(value[last.node], AfterAnnotation(OldValue))
       /\ ParsedBody(OldValue) = parseAttributes(Join(rest, <<" ">>))
       /\ last.target # NoTarget =>
            /\ properties[last.target] =
                 applyAttributes(OldProps, parseAttributes(Join(rest, <<" ">>)))
            /\ rest = <<>> => properties[last.target] = OldProps

C26_Witness ==
  /\ IsMerge
  /\ BodyTokens(OldValue) = <<MOther, MClass>>
  /\ OldProps = PropsNone
  /\ properties[last.target] = (CLASSNAME :> Str(<<"k">>))
  /\ value[last.node] = <<"x">>

C26_WitnessOnlyUnknown ==
  /\ IsMerge
  /\ BodyTokens(OldValue) = <<MOther, MOther>>
  /\ OldProps = PropsSome
  /\ properties[last.target] = PropsSome

\* The tokens of an annotation whose quotes are closed, its class names, and
\* whether it has a className= token.
QuotedTokens == PiecesOf(AnnotationBody(OldValue))
QuotedClasses ==
  LET cls == SelectSeq(QuotedTokens, IsClassRule)
  IN [i \in 1..Len(cls) |-> Tail(cls[i])]
QuotedNamesClassKey ==
  \E i \in DOMAIN QuotedTokens :
    IsAttributeRule(QuotedTokens[i]) /\ KeyOf(QuotedTokens[i]) = CLASSNAME
IsClassMerge ==
  /\ IsMerge
  /\ QuotesClosed(AnnotationBody(OldValue))
  /\ QuotedClasses # <<>>
  /\ ~QuotedNamesClassKey

\* The old class value as a list: none when absent, the array as it is, the
\* pieces between white space of a string.
OldClassList ==
  IF CLASSNAME \notin DOMAIN OldProps THEN <<>>
  ELSE IF OldProps[CLASSNAME].isArray THEN OldProps[CLASSNAME].items
  ELSE PiecesOf(OldProps[CLASSNAME].items[1])

\* C27: the merged class is the old class list (a string cut at every white
\* space character, empty pieces dropped) followed by the new classes, each
\* name once, so a new class that is one of the old ones is not added again.
C27_ClassNormalisation ==
  IsClassMerge =>
    /\ properties[last.target][CLASSNAME] =
         Str(Join(FirstOccurrences(OldClassList \o QuotedClasses), <<" ">>))

\* Names that are not empty, with one space between two of them and none at
\* the two ends.
IsClassString(c) ==
  /\ ~c.isArray
  /\ LET v == c.items[1]
     IN /\ v # <<>>
        /\ v[1] # " "
        /\ v[Len(v)] # " "
        /\ \A i \in 1..(Len(v) - 1) : ~(v[i] = " " /\ v[i + 1] = " ")

\* C29: after the merge of an annotation with a class token, a bare '.'
\* among them, the target's class is a string of non-empty names with one
\* space between two of them and none at the two ends.
C29_ClassStringForm ==
  (IsMerge /\ QuotesClosed(AnnotationBody(OldValue)) /\ QuotedClasses # <<>>) =>
    /\ CLASSNAME \in DOMAIN properties[last.target]
    /\ IsClassString(properties[last.target][CLASSNAME])

\* The text nodes that are in the tree.
TextsInTree ==
  {x \in Nodes : type[x] = "text" /\ \E p \in Nodes : x \in Range(children[p])}

\* C28: when the traversal is over, no text node of the tree has a value that
\* starts with an annotation, so a second traversal would change nothing.
C28_NoAnnotationLeft ==
  Done => \A x \in TextsInTree : NotAnnotated(value[x])

\* The key=value tokens of the annotation with the key k.
TokensFor(k) ==
  SelectSeq(QuotedTokens, LAMBDA t : IsAttributeRule(t) /\ KeyOf(t) = k)

\* C30: the value of an id= token is the target's id after the merge, with
\* an id token before it or after it in the body, and the value of a
\* className= token is the target's class, whatever classes the annotation
\* and the target name.
C30_AttributeTokenWins ==
  (IsMerge /\ QuotesClosed(AnnotationBody(OldValue))) =>
    /\ TokensFor(ID) # <<>> =>
         /\ ID \in DOMAIN properties[last.target]
         /\ properties[last.target][ID] = Str(ValueOf(Last(TokensFor(ID))))
    /\ TokensFor(CLASSNAME) # <<>> =>
         /\ CLASSNAME \in DOMAIN properties[last.target]
         /\ properties[last.target][CLASSNAME] =
              Str(ValueOf(Last(TokensFor(CLASSNAME))))

C30_Witness ==
  /\ IsMerge
  /\ QuotedTokens = <<EIdAttr, EId>>
  /\ OldProps = PropsSome
  /\ properties[last.target][ID] = Str(<<"b">>)

C30_WitnessClass ==
  /\ IsMerge
  /\ QuotedTokens = <<EClassAttr, EClass>>
  /\ OldProps = PropsSome
  /\ properties[last.target][CLASSNAME] = Str(<<"z">>)

====
